---- MODULE Spec2Model ----
(***************************************************************************)
(* Model of the runner script that Pingtunnel.py installs (the text of     *)
(* RUNNER_TEMPLATE): the Supervisor (monitor_loop), the Command Builder    *)
(* (build_args), the Resource Limiter (apply_systemd_mem) and the Service  *)
(* Front-End (start / stop / restart / status).                            *)
(*                                                                         *)
(* Processes are numbered in the order of their creation; process          *)
(* identifiers are not reused.  A file is a sequence of length 0 (absent)  *)
(* or 1 (present, holding its content).  The log file is kept per writing  *)
(* process: log[p] is the sequence of lines process p appended.            *)
(***************************************************************************)
EXTENDS Integers, Sequences, FiniteSets, TLC

\* ------------------------------------------------------------------ bounds
MaxPid == 2          \* processes the host lets the service create
MaxAttempts == 2     \* launch attempts of one Supervisor

\* --------------------------------------------------------------- constants
SIGTERM == 15
SIGKILL == 9
BACKOFF == 3         \* seconds the loop sleeps after a pass
FrontEnd == 0        \* stands for the process running the front-end command

Pids == 1..(MaxPid + MaxAttempts)

BundledBin == "/opt/pingtunnel/bin/pingtunnel"
CustomBin == "/usr/local/sbin/pt"
BinPaths == {BundledBin, CustomBin}
NoBin == ""

\* Configuration records as json.load returns them: a key may be absent.
ServerConf == [type |-> "server", key |-> "123456", tcp |-> 1, memory_mb |-> 0]
ClientConf ==
    [type |-> "client", l_port |-> 4000, server |-> "10.0.0.1", key |-> "123456",
     tcp |-> 0, memory_mb |-> 500, binary |-> CustomBin]
Confs == {ServerConf, ClientConf}

\* The configurations the Command Builder is examined over: every key it
\* could read is present or absent.
Opt(k, vals) == {<<>>} \cup {k :> v : v \in vals}
BuildConfs ==
    {t @@ l @@ s @@ k @@ c @@ x :
        t \in Opt("type", {"server", "client", "Server"}),
        l \in Opt("l_port", {4000}),
        s \in Opt("server", {"10.0.0.1"}),
        k \in Opt("key", {"123456"}),
        c \in Opt("tcp", {0, 1}),
        x \in Opt("extra_flags", {<<"-x", "1">>})}

VARIABLES
    systemctlOnPath,  \* shutil.which("systemctl") is not None
    systemdRunning,   \* /run/systemd/system exists
    etcWritable,      \* /etc/systemd/system can be written
    runWritable,      \* /run can be written
    procLimit,        \* how many processes the host lets be created
    unitWanted,       \* the init system was asked to run the unit
    confFile,         \* config.json
    binFiles,         \* the executables that exist, among BinPaths
    pidFile,          \* /run/pingtunnel.pid
    memFile,          \* the drop-in memory.conf: <<>> or <<limit in MB>>
    nextPid,          \* the next process identifier
    kind,             \* "free", "monitor" (a Supervisor) or "tunnel" (a child)
    alive,
    parent,           \* of a tunnel: the Supervisor that launched it
    pc,               \* of a Supervisor: "enter", "launch", "wait", "sleep", "done"
    args,             \* the argument vector a process holds (Supervisor) or runs (tunnel)
    child,            \* of a Supervisor: the child its Popen object names
    rc,               \* exit status of a dead process, negative for a signal
    err,              \* what a Supervisor wrote to stderr when it ended on its own
    log,              \* the log lines a process wrote
    slept,            \* of a Supervisor: the seconds it spent in the loop's sleep
    pendingTerm,      \* processes with a SIGTERM sent and not yet delivered
    fePc,             \* front-end: "idle", or the sleep it is in: "stop_grace",
                      \* "restart_grace" (sleep in stop), "pause" (sleep in restart)
    fePid,            \* the pid stop read from the PID record
    feOut             \* what the last front-end operation reported

vars ==
    <<systemctlOnPath, systemdRunning, etcWritable, runWritable, procLimit,
      unitWanted, confFile, binFiles,
      pidFile, memFile, nextPid, kind, alive, parent, pc, args, child, rc, err, log,
      slept, pendingTerm, fePc, fePid, feOut>>

envVars == <<systemctlOnPath, systemdRunning, etcWritable, runWritable, procLimit>>
fileVars == <<confFile, binFiles, pidFile, memFile>>
procVars ==
    <<nextPid, kind, alive, parent, pc, args, child, rc, err, log, slept, pendingTerm>>
feVars == <<fePc, fePid, feOut>>

\* ------------------------------------------------------------ pure helpers
\* conf.get(k, d)
Get(conf, k, d) == IF k \in DOMAIN conf THEN conf[k] ELSE d

\* str.lower() on the mode names that occur
lower(s) ==
    CASE s = "SERVER" -> "server"
      [] s = "Server" -> "server"
      [] s = "CLIENT" -> "client"
      [] s = "Client" -> "client"
      [] OTHER -> s

\* find_bin that falls back to the bundled path without looking for it
find_bin_unchecked(conf, files) ==
    LET b == Get(conf, "binary", "") IN
    IF b # "" /\ b \in files THEN b ELSE BundledBin

\* find_bin: the configured binary if it exists, else the first file under
\* BIN_DIR whose name contains "pingtunnel"; NoBin stands for SystemExit.
find_bin(conf, files) ==
    LET b == Get(conf, "binary", "") IN
    IF b # "" /\ b \in files THEN b
    ELSE IF BundledBin \in files THEN BundledBin
    ELSE NoBin

\* a Command Builder that passes the endpoint in server mode too
build_args_mixed(conf, binpath) ==
    LET t == lower(Get(conf, "type", "server"))
        key == Get(conf, "key", "")
        common == <<"-tcp", "1", "-key", key, "-noprint", "1", "-nolog", "1">>
        lport == Get(conf, "l_port", 0)
        server == Get(conf, "server", "")
    IN  <<binpath>>
        \o (IF t = "server" THEN <<"-type", "server">>
            ELSE IF lport # 0
                 THEN <<"-type", "client", "-l", ":" \o ToString(lport)>>
                 ELSE <<"-type", "client">>)
        \o (IF server # "" THEN <<"-s", server>> ELSE <<>>)
        \o common

\* a Command Builder that passes the configured tcp value on
build_args_tcp(conf, binpath) ==
    LET t == lower(Get(conf, "type", "server"))
        key == Get(conf, "key", "")
        tcp == ToString(Get(conf, "tcp", 1))
        common == <<"-tcp", tcp, "-key", key, "-noprint", "1", "-nolog", "1">>
        lport == Get(conf, "l_port", 0)
        server == Get(conf, "server", "")
    IN  IF t = "server"
        THEN <<binpath>> \o <<"-type", "server">> \o common
        ELSE <<binpath>>
             \o (IF lport # 0
                 THEN <<"-type", "client", "-l", ":" \o ToString(lport)>>
                 ELSE <<"-type", "client">>)
             \o (IF server # "" THEN <<"-s", server>> ELSE <<>>)
             \o common

\* build_args: the tcp value is read and never used.
build_args(conf, binpath) ==
    LET t == lower(Get(conf, "type", "server"))
        key == Get(conf, "key", "")
        tcp == ToString(Get(conf, "tcp", 1))
        common == <<"-tcp", "1", "-key", key, "-noprint", "1", "-nolog", "1">>
        lport == Get(conf, "l_port", 0)
        server == Get(conf, "server", "")
    IN  IF t = "server"
        THEN <<binpath>> \o <<"-type", "server">> \o common
        ELSE <<binpath>>
             \o (IF lport # 0
                 THEN <<"-type", "client", "-l", ":" \o ToString(lport)>>
                 ELSE <<"-type", "client">>)
             \o (IF server # "" THEN <<"-s", server>> ELSE <<>>)
             \o common

\* a limiter that never removes the drop-in file
apply_systemd_mem_keeps(conf, mf) ==
    LET m == Get(conf, "memory_mb", 0) IN
    IF m > 0
    THEN IF ~etcWritable THEN [ok |-> FALSE, mem |-> mf]
         ELSE IF ~systemctlOnPath THEN [ok |-> FALSE, mem |-> <<m>>]
         ELSE [ok |-> TRUE, mem |-> <<m>>]
    ELSE [ok |-> TRUE, mem |-> mf]

\* apply_systemd_mem: the drop-in file afterwards, and whether the call
\* returned (ok) or raised.  With a limit > 0 nothing catches a failing
\* mkdir / write_text or a missing systemctl; with no limit the removal is
\* wrapped in try / except.
apply_systemd_mem(conf, mf) ==
    LET m == Get(conf, "memory_mb", 0) IN
    IF m > 0
    THEN IF ~etcWritable THEN [ok |-> FALSE, mem |-> mf]
         ELSE IF ~systemctlOnPath THEN [ok |-> FALSE, mem |-> <<m>>]
         ELSE [ok |-> TRUE, mem |-> <<m>>]
    ELSE IF mf # <<>> /\ etcWritable THEN [ok |-> TRUE, mem |-> <<>>]
         ELSE [ok |-> TRUE, mem |-> mf]

\* apply_memory_dropin of the installer: the drop-in file afterwards.  The
\* caller, install_flow, passes over what the call raises.
apply_memory_dropin(mem_mb, mf) ==
    IF mem_mb > 0
    THEN IF etcWritable THEN <<mem_mb>> ELSE mf
    ELSE IF mf # <<>> /\ etcWritable THEN <<>> ELSE mf

\* is_systemd_available
is_systemd_available == systemctlOnPath /\ systemdRunning

Line(e, n) == [ev |-> e, n |-> n]

\* what pgrep / pkill -f pingtunnel matches: every Supervisor (its command
\* line holds the runner's path) and every tunnel run from the bundled binary
Matches(p) ==
    /\ alive[p]
    /\ \/ kind[p] = "monitor"
       \/ kind[p] = "tunnel" /\ args[p][1] = BundledBin

Matching == {p \in Pids : Matches(p)}

\* ------------------------------------------------------------------- Init
InitOver(confs) ==
    /\ systemctlOnPath \in BOOLEAN
    /\ systemdRunning \in BOOLEAN
    /\ etcWritable \in BOOLEAN
    /\ runWritable \in BOOLEAN
    /\ procLimit \in {MaxPid, MaxPid + 1, 1 + MaxAttempts}
    /\ unitWanted = FALSE
    /\ confFile \in {<<>>} \cup {<<c>> : c \in confs}
    /\ binFiles \in SUBSET BinPaths
    /\ pidFile = <<>>
    /\ memFile = <<>>
    /\ nextPid = 1
    /\ kind = [p \in Pids |-> "free"]
    /\ alive = [p \in Pids |-> FALSE]
    /\ parent = [p \in Pids |-> 0]
    /\ pc = [p \in Pids |-> "done"]
    /\ args = [p \in Pids |-> <<>>]
    /\ child = [p \in Pids |-> 0]
    /\ rc = [p \in Pids |-> 0]
    /\ err = [p \in Pids |-> ""]
    /\ log = [p \in Pids |-> <<>>]
    /\ slept = [p \in Pids |-> 0]
    /\ pendingTerm = {}
    /\ fePc = "idle"
    /\ fePid = 0
    /\ feOut = [msg |-> "none", pid |-> 0, procs |-> {}]

Init == InitOver(Confs)

\* ------------------------------------------------------------- Supervisor
\* the number of launch attempts process p has logged
Attempts(p) == Cardinality({i \in 1..Len(log[p]) : log[p][i].ev = "starting"})

\* a process ends on its own with status 1 and a message on stderr
\* (raise SystemExit(msg), or an exception nothing catches)
EndsWith(p, msg) ==
    /\ alive' = [alive EXCEPT ![p] = FALSE]
    /\ rc' = [rc EXCEPT ![p] = 1]
    /\ err' = [err EXCEPT ![p] = msg]
    /\ pc' = [pc EXCEPT ![p] = "done"]
    /\ pendingTerm' = pendingTerm \ {p}

\* monitor_loop up to the loop: load_conf, find_bin, apply_systemd_mem,
\* build_args, log("monitor loop starting")
monitor_enter(p) ==
    /\ kind[p] = "monitor" /\ alive[p] /\ pc[p] = "enter"
    /\ IF confFile = <<>>
       THEN /\ EndsWith(p, "config missing")
            /\ UNCHANGED <<args, log, memFile>>
       ELSE LET conf == confFile[1]
                binpath == find_bin(conf, binFiles)
                lim == apply_systemd_mem(conf, memFile)
            IN  IF binpath = NoBin
                THEN /\ EndsWith(p, "pingtunnel binary not found")
                     /\ UNCHANGED <<args, log, memFile>>
                ELSE IF ~lim.ok
                THEN /\ EndsWith(p, "Traceback: apply_systemd_mem")
                     /\ memFile' = lim.mem
                     /\ UNCHANGED <<args, log>>
                ELSE /\ memFile' = lim.mem
                     /\ args' = [args EXCEPT ![p] = build_args(conf, binpath)]
                     /\ log' = [log EXCEPT ![p] = Append(@, Line("monitor loop starting", 0))]
                     /\ pc' = [pc EXCEPT ![p] = "launch"]
                     /\ UNCHANGED <<alive, rc, err, pendingTerm>>
    /\ UNCHANGED <<envVars, unitWanted, confFile, binFiles, pidFile, nextPid, kind,
                   parent, child, slept, feVars>>

\* subprocess.Popen(args) can succeed: the program exists and a process can
\* be created
CanSpawn(p) == args[p][1] \in binFiles /\ nextPid <= procLimit

\* a launch error that ends the Supervisor
launch_error_is_fatal == "done"

\* where the loop goes after `except Exception` logged a launch error
after_launch_error == "sleep"

\* a launch that does not log the child's pid
launched_lines_without_pid(c) == <<Line("starting", 0)>>

\* what a pass logs up to p.wait() when the child c was spawned
launched_lines(c) == <<Line("starting", 0), Line("child pid", c)>>

\* what a pass logs when Popen raised
launch_error_lines == <<Line("starting", 0), Line("launch error", 0)>>

\* one pass of the loop body up to p.wait(): log the launch, open the log,
\* spawn the child and log its pid, or log the launch error
monitor_launch(p) ==
    /\ kind[p] = "monitor" /\ alive[p] /\ pc[p] = "launch"
    /\ Attempts(p) < MaxAttempts
    /\ \E ok \in (IF CanSpawn(p) THEN BOOLEAN ELSE {FALSE}) :
         IF ok
         THEN LET c == nextPid IN
              /\ nextPid' = nextPid + 1
              /\ kind' = [kind EXCEPT ![c] = "tunnel"]
              /\ alive' = [alive EXCEPT ![c] = TRUE]
              /\ parent' = [parent EXCEPT ![c] = p]
              /\ args' = [args EXCEPT ![c] = args[p]]
              /\ child' = [child EXCEPT ![p] = c]
              /\ log' = [log EXCEPT ![p] = @ \o launched_lines(c)]
              /\ pc' = [pc EXCEPT ![p] = "wait"]
         ELSE /\ log' = [log EXCEPT ![p] = @ \o launch_error_lines]
              /\ pc' = [pc EXCEPT ![p] = after_launch_error]
              /\ alive' = [alive EXCEPT ![p] = after_launch_error # "done"]
              /\ UNCHANGED <<nextPid, kind, parent, args, child>>
    /\ UNCHANGED <<envVars, unitWanted, fileVars, rc, err, slept, pendingTerm, feVars>>

\* a wait that does not block: poll()
wait_returns_at_once(c) == TRUE

\* p.wait() returns once the child has terminated
wait_returns(c) == ~alive[c]

\* a classification that takes every exit status for an exit code
classify_as_exit(r) == Line("child exited", r)

\* the line logged for the exit status r of the child
classify(r) ==
    IF r < 0 THEN Line("child killed by signal", -r) ELSE Line("child exited", r)

\* rc = p.wait() and the log of its classification
monitor_wait(p) ==
    /\ kind[p] = "monitor" /\ alive[p] /\ pc[p] = "wait"
    /\ wait_returns(child[p])
    /\ log' = [log EXCEPT ![p] = Append(@, classify(rc[child[p]]))]
    /\ pc' = [pc EXCEPT ![p] = "sleep"]
    /\ UNCHANGED <<envVars, unitWanted, fileVars, nextPid, kind, alive, parent, args,
                   child, rc, err, slept, pendingTerm, feVars>>

\* a loop that gives up after the first failed pass
loop_until_failure(p) == log[p][Len(log[p])] = Line("child exited", 0)

\* the loop's condition: while True
loop_continues(p) == TRUE

\* a pause that grows with the number of attempts made
sleep_seconds_growing(p) == BACKOFF * Attempts(p)

\* the pause between two passes: time.sleep(3)
sleep_seconds(p) == BACKOFF

\* time.sleep(3), then the next pass
monitor_sleep(p) ==
    /\ kind[p] = "monitor" /\ alive[p] /\ pc[p] = "sleep"
    /\ slept' = [slept EXCEPT ![p] = @ + sleep_seconds(p)]
    /\ IF loop_continues(p)
       THEN /\ pc' = [pc EXCEPT ![p] = "launch"]
            /\ UNCHANGED <<alive, pendingTerm>>
       ELSE /\ pc' = [pc EXCEPT ![p] = "done"]
            /\ alive' = [alive EXCEPT ![p] = FALSE]
            /\ pendingTerm' = pendingTerm \ {p}
    /\ UNCHANGED <<envVars, unitWanted, fileVars, nextPid, kind, parent, args,
                   child, rc, err, log, feVars>>

\* ------------------------------------------------------- operating system
\* the exit statuses a tunnel ends with by itself, or -SIGKILL when the
\* kernel kills it
TunnelExits == {0, 1, -SIGKILL}

tunnel_exit(c) ==
    /\ kind[c] = "tunnel" /\ alive[c]
    /\ \E r \in TunnelExits :
         /\ alive' = [alive EXCEPT ![c] = FALSE]
         /\ rc' = [rc EXCEPT ![c] = r]
    /\ pendingTerm' = pendingTerm \ {c}
    /\ UNCHANGED <<envVars, unitWanted, fileVars, nextPid, kind, parent, pc, args,
                   child, err, log, slept, feVars>>

\* a pending SIGTERM is delivered: neither the runner nor the tunnel handles
\* it, so the process terminates
deliver_term(p) ==
    /\ p \in pendingTerm /\ alive[p]
    /\ alive' = [alive EXCEPT ![p] = FALSE]
    /\ rc' = [rc EXCEPT ![p] = -SIGTERM]
    /\ pc' = [pc EXCEPT ![p] = "done"]
    /\ pendingTerm' = pendingTerm \ {p}
    /\ UNCHANGED <<envVars, unitWanted, fileVars, nextPid, kind, parent, args, child,
                   err, log, slept, feVars>>

\* -------------------------------------------------------------- Front-End
Out(m, p, s) == [msg |-> m, pid |-> p, procs |-> s]

Monitors == {p \in Pids : kind[p] = "monitor"}
LiveMonitors == {p \in Monitors : alive[p]}

\* a new Supervisor process p running `--run`
Spawned(p) ==
    /\ nextPid' = p + 1
    /\ kind' = [kind EXCEPT ![p] = "monitor"]
    /\ alive' = [alive EXCEPT ![p] = TRUE]
    /\ pc' = [pc EXCEPT ![p] = "enter"]
    /\ UNCHANGED <<parent, args, child, rc, err, log, slept, pendingTerm>>

\* start(): with an init system, ask it; otherwise spawn the Supervisor in
\* its own session and write its pid to the PID record (a failing write is
\* passed over)
start ==
    IF is_systemd_available
    THEN /\ unitWanted' = TRUE
         /\ feOut' = Out("systemctl start requested", 0, {})
         /\ UNCHANGED <<pidFile, procVars>>
    ELSE /\ nextPid <= procLimit
         /\ Spawned(nextPid)
         /\ pidFile' = IF runWritable THEN <<nextPid>> ELSE pidFile
         /\ feOut' = Out("background monitor started", nextPid, {})
         /\ UNCHANGED unitWanted

\* stop() up to time.sleep(1).  `after` is where the front-end goes when
\* stop() returns, `grace` where it sleeps.  pkill -f pingtunnel signals every
\* matching process, the front-end's own among them: it may be terminated
\* before it logs.
stop_begin(after, grace) ==
    IF is_systemd_available
    THEN /\ unitWanted' = FALSE
         /\ pendingTerm' = pendingTerm \cup {p \in Pids : alive[p]}
         /\ feOut' = Out("systemctl stop requested", 0, {})
         /\ fePc' = after
         /\ UNCHANGED <<pidFile, fePid, nextPid, kind, alive, parent, pc, args, child,
                        rc, err, log, slept>>
    ELSE IF pidFile # <<>>
    THEN LET pid == pidFile[1] IN
         IF alive[pid]
         THEN /\ pendingTerm' = pendingTerm \cup {pid}
              /\ fePid' = pid
              /\ fePc' = grace
              /\ UNCHANGED <<unitWanted, pidFile, feOut, nextPid, kind, alive, parent,
                             pc, args, child, rc, err, log, slept>>
         ELSE /\ feOut' = Out("stop error", pid, {})
              /\ fePc' = after
              /\ UNCHANGED <<unitWanted, pidFile, fePid, procVars>>
    ELSE /\ pendingTerm' = pendingTerm \cup Matching
         /\ \E logged \in BOOLEAN :
              IF logged
              THEN feOut' = Out("pkill fallback used", 0, {}) /\ fePc' = after
              ELSE feOut' = Out("terminated", 0, {FrontEnd}) /\ fePc' = "idle"
         /\ UNCHANGED <<unitWanted, pidFile, fePid, nextPid, kind, alive, parent, pc,
                        args, child, rc, err, log, slept>>

\* a stop that sends SIGKILL without probing
probe_skipped(pid) == TRUE

\* os.kill(pid, 0) does not raise: the process exists
still_alive(pid) == alive[pid]

\* stop() after time.sleep(1): SIGKILL if the process still exists, remove
\* the PID record, log
stop_end(after) ==
    /\ IF still_alive(fePid)
       THEN /\ alive' = [alive EXCEPT ![fePid] = FALSE]
            /\ rc' = [rc EXCEPT ![fePid] = -SIGKILL]
            /\ pc' = [pc EXCEPT ![fePid] = "done"]
            /\ pendingTerm' = pendingTerm \ {fePid}
       ELSE UNCHANGED <<alive, rc, pc, pendingTerm>>
    /\ pidFile' = <<>>
    /\ feOut' = Out("background monitor stopped", fePid, {})
    /\ fePc' = after
    /\ fePid' = 0
    /\ UNCHANGED <<unitWanted, nextPid, kind, parent, args, child, err, log, slept>>

\* status(): what it prints; procs is what pgrep -fl pingtunnel lists
status ==
    IF is_systemd_available
    THEN Out("systemctl status", 0, {})
    ELSE IF pidFile # <<>>
    THEN IF alive[pidFile[1]]
         THEN Out("monitor running pid", pidFile[1], {})
         ELSE Out("stale pidfile", 0, Matching \cup {FrontEnd})
    ELSE Out("", 0, Matching \cup {FrontEnd})

cmd_start ==
    /\ fePc = "idle"
    /\ start
    /\ UNCHANGED <<envVars, confFile, binFiles, memFile, fePc, fePid>>

cmd_stop ==
    /\ fePc = "idle"
    /\ stop_begin("idle", "stop_grace")
    /\ UNCHANGED <<envVars, confFile, binFiles, memFile>>

cmd_stop_end ==
    /\ fePc = "stop_grace"
    /\ stop_end("idle")
    /\ UNCHANGED <<envVars, confFile, binFiles, memFile>>

\* restart: stop(); time.sleep(1); start()
cmd_restart ==
    /\ fePc = "idle"
    /\ stop_begin("pause", "restart_grace")
    /\ UNCHANGED <<envVars, confFile, binFiles, memFile>>

cmd_restart_stop_end ==
    /\ fePc = "restart_grace"
    /\ stop_end("pause")
    /\ UNCHANGED <<envVars, confFile, binFiles, memFile>>

cmd_restart_start ==
    /\ fePc = "pause"
    /\ start
    /\ fePc' = "idle"
    /\ UNCHANGED <<envVars, confFile, binFiles, memFile, fePid>>

cmd_status ==
    /\ fePc = "idle"
    /\ feOut' = status
    /\ UNCHANGED <<envVars, unitWanted, fileVars, procVars, fePc, fePid>>

\* ------------------------------------------------------------ environment
\* the runner is run with --run: a Supervisor process begins
run_entry ==
    /\ nextPid <= procLimit
    /\ Spawned(nextPid)
    /\ UNCHANGED <<envVars, unitWanted, fileVars, feVars>>

\* the init system runs the unit's ExecStart when the unit is wanted and its
\* main process is gone
systemd_exec_start ==
    /\ is_systemd_available /\ unitWanted
    /\ LiveMonitors = {}
    /\ run_entry

\* the entry point is run by hand, once
run_once_entry ==
    /\ Monitors = {}
    /\ run_entry

\* a SIGTERM is sent to a Supervisor from outside (what stop and the init
\* system do)
send_term(p) ==
    /\ kind[p] = "monitor" /\ alive[p] /\ p \notin pendingTerm
    /\ pendingTerm' = pendingTerm \cup {p}
    /\ UNCHANGED <<envVars, unitWanted, fileVars, nextPid, kind, alive, parent, pc,
                   args, child, rc, err, log, slept, feVars>>

\* the configuration file is rewritten (edit), or removed
edit_conf(c) ==
    /\ confFile # <<c>>
    /\ confFile' = <<c>>
    /\ UNCHANGED <<envVars, unitWanted, binFiles, pidFile, memFile, procVars, feVars>>

remove_conf ==
    /\ confFile # <<>>
    /\ confFile' = <<>>
    /\ UNCHANGED <<envVars, unitWanted, binFiles, pidFile, memFile, procVars, feVars>>

\* an executable is installed (update), or removed
install_bin(b) ==
    /\ b \notin binFiles
    /\ binFiles' = binFiles \cup {b}
    /\ UNCHANGED <<envVars, unitWanted, confFile, pidFile, memFile, procVars, feVars>>

remove_bin(b) ==
    /\ b \in binFiles
    /\ binFiles' = binFiles \ {b}
    /\ UNCHANGED <<envVars, unitWanted, confFile, pidFile, memFile, procVars, feVars>>

\* the installer is run again by root over an existing configuration without
\* autostart: the binary is extracted, the unit written (which needs the
\* unit directory and systemctl), the memory drop-in applied
install_flow ==
    /\ confFile # <<>>
    /\ etcWritable /\ systemctlOnPath
    /\ binFiles' = binFiles \cup {BundledBin}
    /\ memFile' = apply_memory_dropin(Get(confFile[1], "memory_mb", 0), memFile)
    /\ feOut' = Out("Installation complete", 0, {})
    /\ UNCHANGED <<envVars, unitWanted, confFile, pidFile, procVars, fePc, fePid>>

\* the entry point is run by hand when no Supervisor is alive
run_again_entry ==
    /\ LiveMonitors = {}
    /\ run_entry

\* ------------------------------------------------------------------- Next
Next ==
    \/ \E p \in Pids : monitor_enter(p)
    \/ \E p \in Pids : monitor_launch(p)
    \/ \E p \in Pids : monitor_wait(p)
    \/ \E p \in Pids : monitor_sleep(p)
    \/ \E c \in Pids : tunnel_exit(c)
    \/ \E p \in Pids : deliver_term(p)
    \/ cmd_start
    \/ cmd_stop
    \/ cmd_stop_end
    \/ cmd_restart
    \/ cmd_restart_stop_end
    \/ cmd_restart_start
    \/ cmd_status
    \/ systemd_exec_start

\* the whole service: front-end commands and the Supervisors they start,
\* over a complete installation that does not change
InitService ==
    /\ Init
    /\ etcWritable
    /\ binFiles = BinPaths
    /\ procLimit = MaxPid

Spec == InitService /\ [][Next]_vars

\* the front-end on a host without an init system that lets one process
\* more be created
NextHost ==
    \/ \E p \in Pids : monitor_enter(p)
    \/ \E p \in Pids : monitor_launch(p)
    \/ \E p \in Pids : monitor_wait(p)
    \/ \E p \in Pids : monitor_sleep(p)
    \/ \E c \in Pids : tunnel_exit(c)
    \/ \E p \in Pids : deliver_term(p)
    \/ cmd_start
    \/ cmd_stop
    \/ cmd_stop_end
    \/ cmd_restart
    \/ cmd_restart_stop_end
    \/ cmd_restart_start
    \/ cmd_status

InitHost ==
    /\ Init
    /\ ~systemctlOnPath /\ ~systemdRunning
    /\ etcWritable /\ runWritable
    /\ binFiles = BinPaths
    /\ confFile = <<ServerConf>>
    /\ procLimit = MaxPid + 1

SpecHost == InitHost /\ [][NextHost]_vars

\* one Supervisor at a time, run through its entry point, while the
\* installation changes under it
NextRun ==
    \/ run_once_entry
    \/ \E p \in Pids : monitor_enter(p)
    \/ \E p \in Pids : monitor_launch(p)
    \/ \E p \in Pids : monitor_wait(p)
    \/ \E p \in Pids : monitor_sleep(p)
    \/ \E c \in Pids : tunnel_exit(c)
    \/ \E p \in Pids : send_term(p)
    \/ \E p \in Pids : deliver_term(p)
    \/ \E c \in Confs : edit_conf(c)
    \/ remove_conf
    \/ \E b \in BinPaths : install_bin(b)
    \/ \E b \in BinPaths : remove_bin(b)

InitRun ==
    /\ Init
    /\ ~systemdRunning
    /\ runWritable
    /\ procLimit = 1 + MaxAttempts

SpecRun == InitRun /\ [][NextRun]_vars

\* Supervisors run one after the other up to their loop, with the
\* configuration edited and the installer run in between: the Resource
\* Limiter applied again and again
NextLimit ==
    \/ run_again_entry
    \/ \E p \in Pids : monitor_enter(p)
    \/ \E p \in Pids : send_term(p)
    \/ \E p \in Pids : deliver_term(p)
    \/ \E c \in Confs : edit_conf(c)
    \/ install_flow

InitLimit ==
    /\ Init
    /\ ~systemdRunning
    /\ runWritable
    /\ binFiles = BinPaths
    /\ confFile # <<>>
    /\ procLimit = MaxPid + 1

SpecLimit == InitLimit /\ [][NextLimit]_vars

\* one Supervisor on a complete installation, for every configuration of
\* BuildConfs: the Command Builder applied and its result launched
NextBuild ==
    \/ run_once_entry
    \/ \E p \in Pids : monitor_enter(p)
    \/ \E p \in Pids : monitor_launch(p)
    \/ \E p \in Pids : monitor_wait(p)
    \/ \E p \in Pids : monitor_sleep(p)
    \/ \E c \in Pids : tunnel_exit(c)

InitBuild ==
    /\ InitOver(BuildConfs)
    /\ confFile # <<>>
    /\ systemctlOnPath /\ ~systemdRunning
    /\ etcWritable /\ runWritable
    /\ binFiles = BinPaths
    /\ procLimit = 1 + MaxAttempts

SpecBuild == InitBuild /\ [][NextBuild]_vars

\* ----------------------------------------------------------------- claims
Tunnels == {c \in Pids : kind[c] = "tunnel"}
Kids(p) == {c \in Tunnels : parent[c] = p}

\* C1: on a host without an init system a start issued while the PID record
\* names a live Supervisor spawns nothing, so whenever the PID record names a
\* live Supervisor, that Supervisor is the only one alive.
C1_SingleInstance ==
    (~is_systemd_available /\ pidFile # <<>> /\ alive[pidFile[1]])
        => LiveMonitors = {pidFile[1]}

\* C2: on a host without an init system, once stop has returned after
\* terminating a Supervisor, no tunnel launched by that Supervisor is alive.
C2_NoOrphan ==
    (~is_systemd_available /\ feOut.msg = "background monitor stopped")
        => \A c \in Kids(feOut.pid) : ~alive[c]

\* C6: on a host without an init system, whenever a stop that found a PID
\* record has returned (the recorded process stopped, or the signal could not
\* be sent), the PID record is gone.
C6_RecordRemoved ==
    (~is_systemd_available
     /\ feOut.msg \in {"background monitor stopped", "stop error"})
        => pidFile = <<>>

StatusStep == cmd_status /\ ~is_systemd_available

\* C7: status reports exactly one of "running" (iff the record
\* names a live process), "stale" (record of a dead process) and "not
\* running" (no record), and changes neither the record nor any process.
C7_ThreeOutcomes ==
    [][StatusStep =>
          /\ feOut'.msg \in {"monitor running pid", "stale pidfile", "not running"}
          /\ (feOut'.msg = "monitor running pid")
                 <=> (pidFile # <<>> /\ alive[pidFile[1]])
          /\ (feOut'.msg = "stale pidfile")
                 <=> (pidFile # <<>> /\ ~alive[pidFile[1]])
          /\ (feOut'.msg = "not running") <=> (pidFile = <<>>)
          /\ UNCHANGED <<pidFile, procVars>>]_vars

\* C14: on a host without an init system, a stop that finds no PID record
\* and no matching process returns normally after the name-based fallback
\* and leaves the PID record absent; and the fallback is taken only when no
\* PID record exists.
C14_GracefulAbsence ==
    [][(cmd_stop /\ ~is_systemd_available) =>
          /\ (pidFile = <<>> /\ Matching = {}) =>
                 /\ feOut'.msg = "pkill fallback used"
                 /\ fePc' = "idle"
                 /\ pidFile' = <<>>
          /\ (feOut' # feOut /\ feOut'.msg \in {"pkill fallback used", "terminated"})
                 => pidFile = <<>>]_vars

\* the sleep of stop() ends in this step
GraceEnds ==
    /\ fePc \in {"stop_grace", "restart_grace"}
    /\ fePc' \notin {"stop_grace", "restart_grace"}

\* C19: a Supervisor is killed by SIGKILL only at the end of the grace period
\* of a stop that had sent it SIGTERM, and only if it is still alive then; a
\* process that ended during the grace period gets no SIGKILL; and the
\* recorded process is not alive when stop goes on after the grace period.
C19_KillAfterGrace ==
    /\ [][\A p \in Pids :
             (kind[p] = "monitor" /\ alive[p] /\ ~alive'[p] /\ rc'[p] = -SIGKILL)
                 => (GraceEnds /\ fePid = p /\ p \in pendingTerm)]_vars
    /\ [][GraceEnds =>
             /\ ~alive'[fePid]
             /\ alive[fePid] => rc'[fePid] = -SIGKILL
             /\ ~alive[fePid] => rc'[fePid] = rc[fePid]]_vars
    /\ [](fePc \in {"stop_grace", "restart_grace"}
             => (fePid = pidFile[1] /\ (fePid \in pendingTerm \/ ~alive[fePid])))

\* one Supervisor was stopped by SIGKILL, another ended by the SIGTERM during
\* the grace period, and stop returned
C19_Witness ==
    /\ feOut.msg = "background monitor stopped"
    /\ \E p, q \in Monitors :
          /\ ~alive[p] /\ rc[p] = -SIGKILL
          /\ ~alive[q] /\ rc[q] = -SIGTERM

\* C20: on a host without an init system, a restart that found the PID
\* record naming a live Supervisor has stopped that Supervisor before it
\* spawns the new one, and when it returns exactly one Supervisor is alive
\* and the PID record names it, the new one.
C20_RestartReplaces ==
    /\ [](fePc = "pause" /\ feOut.msg = "background monitor stopped"
             => ~alive[feOut.pid])
    /\ [][(fePc = "pause" /\ feOut.msg = "background monitor stopped"
            /\ fePc' = "idle") =>
              /\ pidFile' # <<>>
              /\ kind[pidFile'[1]] = "free"
              /\ LiveMonitors' = {pidFile'[1]}]_vars

\* ------------------------------------------------ claims on the Supervisor
NextFair ==
    \A p \in Pids :
        /\ WF_vars(monitor_enter(p))
        /\ WF_vars(monitor_launch(p))
        /\ WF_vars(monitor_wait(p))
        /\ WF_vars(monitor_sleep(p))

\* SpecRun with the Supervisor process scheduled: a step of it that stays
\* possible is taken.  Nothing obliges a tunnel to exit or a signal to come.
FairRun == SpecRun /\ NextFair

InLoop(p) == kind[p] = "monitor" /\ alive[p] /\ pc[p] \in {"launch", "wait", "sleep"}

\* the Supervisor logged the exit classification of its child c
Classified(p, c) ==
    \E i \in 1..(Len(log[p]) - 1) :
        /\ log[p][i] = Line("child pid", c)
        /\ log[p][i + 1].ev \in {"child exited", "child killed by signal"}

\* C3: at most one child of a Supervisor is alive, and a child was launched
\* only after every earlier child of the same Supervisor had terminated and
\* had its exit classification logged.
C3_OneChild ==
    \A p \in Monitors :
        /\ Cardinality({c \in Kids(p) : alive[c]}) <= 1
        /\ \A c1, c2 \in Kids(p) : c1 < c2 => (~alive[c1] /\ Classified(p, c1))

\* a Supervisor runs its second child
C3_Witness ==
    \E p \in Monitors : \E c1, c2 \in Kids(p) : c1 < c2 /\ alive[c2] /\ alive[p]

Exit0Logged(p) ==
    Cardinality({i \in 1..Len(log[p]) : log[p][i] = Line("child exited", 0)})
Exit0(p) == Cardinality({c \in Kids(p) : ~alive[c] /\ rc[c] = 0})

\* the pass is over: the child has ended, or the launch failed
PassOver(p) ==
    \/ pc[p] = "sleep"
    \/ pc[p] = "wait" /\ ~alive[child[p]]

\* C4: a Supervisor in its loop ends only by a signal; after every pass
\* (child exited 0, exited non-zero, killed by a signal, launch error) it
\* makes another launch attempt unless a signal ends it first (up to
\* MaxAttempts attempts); and the "exited 0" lines it logged are as many as
\* its children that exited with code 0.
C4_RestartsForever ==
    /\ [][\A p \in Pids : (InLoop(p) /\ ~alive'[p]) => rc'[p] < 0]_vars
    /\ \A p \in Pids : \A k \in 1..(MaxAttempts - 1) :
           (InLoop(p) /\ PassOver(p) /\ Attempts(p) = k)
               ~> (~alive[p] \/ Attempts(p) = k + 1)
    /\ [](\A p \in Pids : (InLoop(p) /\ pc[p] # "wait") => Exit0Logged(p) = Exit0(p))

\* two children exited with code 0, two lines say so, the Supervisor lives
C4_Witness ==
    \E p \in Pids : InLoop(p) /\ Exit0Logged(p) = 2 /\ Exit0(p) = 2

\* C5: a launch after the first uses the argument vector built from the
\* configuration file as it is at that launch.
C5_FreshConf ==
    [][\A c \in Pids :
          (/\ kind[c] = "free" /\ kind'[c] = "tunnel"
           /\ Attempts(parent'[c]) >= 1
           /\ confFile # <<>>
           /\ find_bin(confFile[1], binFiles) # NoBin)
              => args'[c] = build_args(confFile[1], find_bin(confFile[1], binFiles))]_vars

\* C8: no Supervisor ends because applying the memory limit failed.
C8_LimitNeverFatal ==
    \A p \in Monitors : err[p] # "Traceback: apply_systemd_mem"

\* the step is a launch attempt of p in which the spawn failed
LaunchFailed(p) ==
    /\ InLoop(p) /\ pc[p] = "launch"
    /\ Len(log'[p]) > Len(log[p])
    /\ nextPid' = nextPid

\* C9: a failed spawn leaves the Supervisor alive with a launch error as its
\* last log line and in the backoff sleep, and a Supervisor leaves the sleep
\* only for another launch attempt (or by a signal).
C9_LaunchErrorRetried ==
    [][\A p \in Pids :
          /\ LaunchFailed(p) =>
                 /\ alive'[p] /\ pc'[p] = "sleep"
                 /\ log'[p][Len(log'[p])] = Line("launch error", 0)
          /\ (InLoop(p) /\ pc[p] = "sleep" /\ pc'[p] # "sleep")
                 => (pc'[p] = "launch" \/ rc'[p] < 0)]_vars

\* after a launch error the Supervisor attempted another launch
C9_Witness ==
    \E p \in Pids : \E i \in 1..Len(log[p]) :
        /\ alive[p]
        /\ i < Len(log[p])
        /\ log[p][i] = Line("launch error", 0)
        /\ log[p][i + 1] = Line("starting", 0)

\* the Supervisor p is at its entry and the configuration file is missing or
\* no binary can be resolved
FatalAtStart(p) ==
    /\ kind[p] = "monitor" /\ alive[p] /\ pc[p] = "enter"
    /\ \/ confFile = <<>>
       \/ /\ BundledBin \notin binFiles
          /\ \/ "binary" \notin DOMAIN confFile[1]
             \/ confFile[1].binary \notin binFiles

\* C10: a Supervisor that starts with the configuration file missing or no
\* binary resolvable exits with a non-zero status in its first step, and a
\* Supervisor that ended that way logged nothing, launched no child and never
\* slept.
C10_FatalAtStart ==
    /\ [][\A p \in Pids :
             (FatalAtStart(p) /\ pc'[p] # "enter")
                 => (~alive'[p] /\ rc'[p] # 0 /\ log'[p] = <<>> /\ nextPid' = nextPid)]_vars
    /\ [](\A p \in Monitors :
             err[p] \in {"config missing", "pingtunnel binary not found"}
                 => (~alive[p] /\ rc[p] = 1 /\ log[p] = <<>> /\ Kids(p) = {}
                     /\ pc[p] = "done"))

\* a Supervisor ended because no binary could be resolved
C10_Witness ==
    \E p \in Monitors : err[p] = "pingtunnel binary not found" /\ ~alive[p]

\* the log line is an exit classification
Classification(l) == l.ev \in {"child exited", "child killed by signal"}

\* C13: while a Supervisor runs, every child termination it waited for has
\* exactly one classification in the log, right after the child's pid line:
\* "killed by signal n" when the child died of signal n, "exited n" when it
\* exited with code n, never the other; and a classification is logged for
\* nothing else.
C13_OneClassification ==
    \A p \in Monitors : \A i \in 1..Len(log[p]) :
        /\ (log[p][i].ev = "child pid" /\ i < Len(log[p])) =>
               LET c == log[p][i].n IN
               /\ ~alive[c]
               /\ rc[c] < 0 => log[p][i + 1] = Line("child killed by signal", -rc[c])
               /\ rc[c] >= 0 => log[p][i + 1] = Line("child exited", rc[c])
               /\ i + 1 < Len(log[p]) => ~Classification(log[p][i + 2])
        /\ (log[p][i].ev = "child pid" /\ i = Len(log[p])) =>
               (pc[p] = "wait" \/ ~alive[p])
        /\ Classification(log[p][i]) => (i > 1 /\ log[p][i - 1].ev = "child pid")

\* one Supervisor logged a child killed by a signal and a child that exited
\* with code 1
C13_Witness ==
    \E p \in Monitors : \E i, j \in 1..Len(log[p]) :
        /\ log[p][i] = Line("child killed by signal", SIGKILL)
        /\ log[p][j] = Line("child exited", 1)

\* C17: the log of a Supervisor is its loop's opening line followed by
\* passes; a pass in which the spawn succeeded is the launch line, the pid
\* line and the classification, one each in that order; a pass in which the
\* spawn failed is the launch line and one launch-error line, with no pid
\* line and no classification.
C17_PassLogOrder ==
    \A p \in Monitors : \A i \in 1..Len(log[p]) :
        LET l == log[p][i]
            last == i = Len(log[p])
            nxt == log[p][i + 1]
        IN  /\ (l.ev = "monitor loop starting") <=> (i = 1)
            /\ l.ev = "monitor loop starting" => (last \/ nxt.ev = "starting")
            /\ l.ev = "starting" =>
                   (last \/ nxt.ev \in {"child pid", "launch error"})
            /\ l.ev = "child pid" => (last \/ Classification(nxt))
            /\ Classification(l) => (last \/ nxt.ev = "starting")
            /\ l.ev = "launch error" => (last \/ nxt.ev = "starting")
            /\ l.ev \in {"monitor loop starting", "starting", "child pid",
                         "launch error", "child exited", "child killed by signal"}

\* a pass with a child followed by a pass with a failed spawn
C17_Witness ==
    \E p \in Monitors : \E i \in 1..Len(log[p]) :
        /\ i + 4 <= Len(log[p])
        /\ log[p][i].ev = "starting"
        /\ log[p][i + 1].ev = "child pid"
        /\ Classification(log[p][i + 2])
        /\ log[p][i + 3].ev = "starting"
        /\ log[p][i + 4].ev = "launch error"

\* C18: a Supervisor in its loop has slept BACKOFF seconds once per finished
\* pass, whatever the pass ended with: when it is about to attempt launch
\* k + 1 it has slept k times, the pause never changes, and the loop sleeps
\* nowhere but between two passes.
C18_OneSleepBetween ==
    /\ [](\A p \in Pids :
             InLoop(p) =>
                 slept[p] = BACKOFF * (IF pc[p] = "launch" THEN Attempts(p)
                                       ELSE Attempts(p) - 1))
    /\ [][\A p \in Pids :
             slept'[p] # slept[p] =>
                 /\ slept'[p] = slept[p] + BACKOFF
                 /\ pc[p] = "sleep" /\ pc'[p] = "launch"]_vars

\* a Supervisor slept after a pass with a child and after a pass with a
\* failed spawn, and is about to launch again
C18_Witness ==
    \E p \in Pids :
        /\ InLoop(p) /\ pc[p] = "launch"
        /\ Attempts(p) = 2 /\ slept[p] = 2 * BACKOFF
        /\ \E i, j \in 1..Len(log[p]) :
              log[p][i].ev = "launch error" /\ Classification(log[p][j])

\* ------------------------------------------- claims on the Resource Limiter
\* the configuration file asks for no memory limit
NoLimit == confFile # <<>> /\ Get(confFile[1], "memory_mb", 0) = 0

ZeroConf == [memory_mb |-> 0]

\* C11: applying the Resource Limiter with memory limit 0 (by a Supervisor on
\* its way into the loop, or by the installer) leaves no drop-in file, whether
\* one existed (left by an application with a limit > 0) or not, and applying
\* it twice leaves what applying it once leaves.
C11_NoLimitNoDropin ==
    /\ [][\A p \in Pids :
             (NoLimit /\ pc[p] = "enter" /\ pc'[p] = "launch") => memFile' = <<>>]_vars
    /\ [][(NoLimit /\ feOut' # feOut /\ feOut'.msg = "Installation complete")
             => memFile' = <<>>]_vars
    /\ [](LET once == apply_systemd_mem(ZeroConf, memFile) IN
             /\ once.ok /\ once.mem = <<>>
             /\ apply_systemd_mem(ZeroConf, once.mem) = once)
    /\ [](LET once == apply_memory_dropin(0, memFile) IN
             /\ once = <<>>
             /\ apply_memory_dropin(0, once) = once)

\* a Supervisor ran with the limit of ClientConf, a later one with no limit
\* is in its loop, and no drop-in file is left
C11_Witness ==
    /\ memFile = <<>>
    /\ \E p, q \in Monitors :
          /\ p < q
          /\ args[p] # <<>> /\ args[p][1] = CustomBin
          /\ pc[q] = "launch" /\ args[q][1] = BundledBin

\* ------------------------------------------- claims on the Command Builder
Has(a, f) == \E i \in 1..Len(a) : a[i] = f
HasPair(a, f, v) == \E i \in 1..(Len(a) - 1) : a[i] = f /\ a[i + 1] = v

\* the mode a configuration asks for
ModeOf(conf) ==
    IF "type" \notin DOMAIN conf \/ conf.type \in {"server", "Server"}
    THEN "server" ELSE "client"

\* C12: the argument vector built from a configuration in server mode holds
\* "-type server" and neither "-s" nor "-l"; the one built from a configuration
\* in client mode holds "-type client" and not "-type server".
C12_ModeExclusive ==
    \A p \in Pids :
        args[p] # <<>> =>
            /\ ModeOf(confFile[1]) = "server" =>
                   /\ HasPair(args[p], "-type", "server")
                   /\ ~Has(args[p], "-s") /\ ~Has(args[p], "-l")
            /\ ModeOf(confFile[1]) = "client" =>
                   /\ HasPair(args[p], "-type", "client")
                   /\ ~HasPair(args[p], "-type", "server")

\* a tunnel runs in server mode from a configuration that also holds an
\* endpoint and a listen port
C12_Witness ==
    \E c \in Tunnels :
        /\ alive[c]
        /\ ModeOf(confFile[1]) = "server"
        /\ {"server", "l_port"} \subseteq DOMAIN confFile[1]
        /\ HasPair(args[c], "-type", "server")

\* C15: no child is launched with a client command that names no endpoint:
\* a client configuration without an endpoint is a configuration error
\* raised before any launch.
C15_ClientHasEndpoint ==
    \A c \in Tunnels : HasPair(args[c], "-type", "client") => Has(args[c], "-s")

\* C16: the argument vector built from a configuration with non-empty
\* extra_flags ends with exactly those tokens, in order.
C16_ExtraFlagsLast ==
    \A p \in Pids :
        LET x == Get(confFile[1], "extra_flags", <<>>)
            n == Len(args[p])
        IN  (args[p] # <<>> /\ x # <<>>) =>
                /\ n >= Len(x)
                /\ SubSeq(args[p], n - Len(x) + 1, n) = x

\* the configuration conf with its tcp key set to v, and with no tcp key
WithTcp(conf, v) ==
    [k \in DOMAIN conf \cup {"tcp"} |-> IF k = "tcp" THEN v ELSE conf[k]]
WithoutTcp(conf) == [k \in DOMAIN conf \ {"tcp"} |-> conf[k]]

====
